---- MODULE Spec2Model ----
(***************************************************************************)
(* cpsmainwindow: the document controller of ClassicFileMainWindow         *)
(* (classic_mainwindow.py) and the recent-files registry                   *)
(* RecentlyOpenedFiles (recent_files.py), as a state machine.              *)
(*                                                                         *)
(* Spec          the window driven by user events (event loop)             *)
(* SpecRegistry  the registry class driven directly through its slots      *)
(* SpecNames     the registry given file names around max_length           *)
(***************************************************************************)
EXTENDS Integers, Sequences, FiniteSets, TLC

(* ------------------------------ bounds --------------------------------- *)
\* number of distinct file paths the user works with in Spec
NDocPaths == 1
\* longest editor text, in characters
MaxLen == 1
\* number of distinct paths ever added in SpecRegistry
NPaths == 13
\* registry calls in SpecRegistry other than adding a never-seen path
MaxOps == 2
\* SpecNames: the file names start at one of the first NameStarts characters
\* of ExamplePath and lose at most MaxTrim characters at its end
NameStarts == 2
MaxTrim == 11
\* number of file names added in SpecNames
MaxNames == 2

(* ------------------------- program constants --------------------------- *)
\* RecentlyOpenedFiles.max_no_files
max_no_files == 10

\* RecentlyOpenedFiles.max_length, remain_start, remain_end
max_length == 40
remain_start == 10
remain_end == 25

\* ClassicMainWindow.app_name, as set by the host
app_name == "Classic Text Editor"

\* the two spellings the window uses for a document without a file
Untitled == "Untitled"
untitled == "untitled"

\* filename=None / no argument of a slot (falsy, like the empty string)
None == ""

BaseName(i) == "f" \o ToString(i)
PathName(i) == "/" \o BaseName(i)
DocPaths == {PathName(i) : i \in 1..NDocPaths}

\* the path of a file that was opened by a former run and is gone since
OldPaths == {"/old1"}

\* os.path.basename
basename(p) ==
    IF \E i \in 1..(NPaths + 1) : p = PathName(i)
    THEN BaseName(CHOOSE i \in 1..(NPaths + 1) : p = PathName(i))
    ELSE p

(* ------------------------------ sequences ------------------------------ *)
Range(s) == {s[i] : i \in 1..Len(s)}

Min(a, b) == IF a < b THEN a ELSE b

\* s[:n]
Take(s, n) == SubSeq(s, 1, Min(n, Len(s)))

NoDup(s) == \A i, j \in 1..Len(s) : s[i] = s[j] => i = j

RECURSIVE Without(_, _)
\* s with every occurrence of x taken out
Without(s, x) ==
    IF s = <<>> THEN <<>>
    ELSE IF Head(s) = x THEN Without(Tail(s), x)
    ELSE <<Head(s)>> \o Without(Tail(s), x)

RECURSIVE Dedup(_)
\* list(dict.fromkeys(s)): the first occurrence of every element, in order
Dedup(s) ==
    IF s = <<>> THEN <<>>
    ELSE <<Head(s)>> \o Dedup(Without(Tail(s), Head(s)))

RECURSIVE RemoveFirst(_, _)
\* list.remove(x) on a list that holds x
RemoveFirst(s, x) ==
    IF s = <<>> THEN <<>>
    ELSE IF Head(s) = x THEN Tail(s)
    ELSE <<Head(s)>> \o RemoveFirst(Tail(s), x)

(* ------------------------- text files on disk -------------------------- *)
\* characters of a text: carriage return and line feed, the two that
\* text mode translates
Chars == {"CR", "LF"}
Texts == UNION {[1..n -> Chars] : n \in 0..MaxLen}

\* os.linesep of the platforms Python runs on
LineSeps == {<<"LF">>, <<"CR", "LF">>}

RECURSIVE TextWrite(_, _)
\* file.write(text) of a file opened with open(filename, 'w'):
\* every "\n" is written as os.linesep
TextWrite(text, sep) ==
    IF text = <<>> THEN <<>>
    ELSE (IF Head(text) = "LF" THEN sep ELSE <<Head(text)>>)
         \o TextWrite(Tail(text), sep)

RECURSIVE TextRead(_)
\* file.read() of a file opened with open(filename, 'r'): universal
\* newlines, "\r\n" and "\r" are read as "\n"
TextRead(data) ==
    IF data = <<>> THEN <<>>
    ELSE IF Head(data) = "CR"
         THEN <<"LF">> \o TextRead(IF Len(data) > 1 /\ data[2] = "LF"
                                   THEN Tail(Tail(data)) ELSE Tail(data))
         ELSE <<Head(data)>> \o TextRead(Tail(data))

\* a file of the disk: <<>> when there is none, <<data>> when there is one
NoFile == <<>>
File(data) == <<data>>
Exists(d, f) == f \in DOMAIN d /\ d[f] # NoFile

(* --------------------------- persistent store -------------------------- *)
\* QSettings(org_name, app_name): keys to values
Key == "recent_files_list"
NoSettings == [k \in {} |-> <<>>]

\* settings.setValue(key, value)
setValue(value) == [k \in {Key} |-> value]

\* settings.value(key, default)
value(s, default) == IF Key \in DOMAIN s THEN s[Key] ELSE default

(* ------------------------- RecentlyOpenedFiles ------------------------- *)
\* the registry as a record: filenames, settings, the list last sent with
\* filesChanged, the menu entries (actions) and whether the separator and
\* 'Clear recent files' are visible (clear_visible)

\* name[:n] of a string
StrHead(name, n) == SubSeq(name, 1, Min(n, Len(name)))

\* name[-n:] of a string; name[-0:] is the whole name
StrTail(name, n) ==
    IF n = 0 \/ n >= Len(name) THEN name
    ELSE SubSeq(name, Len(name) - n + 1, Len(name))

\* shorten_name that cuts the name to max_length characters
shorten_nameCut(name, max_len, start, end) == StrHead(name, max_len)

\* shorten_name that joins the two parts with "..."
shorten_nameDots(name, max_len, start, end) ==
    IF Len(name) > max_len
    THEN StrHead(name, start) \o "..." \o StrTail(name, end)
    ELSE name

\* shorten_name(name, max_length, remain_start, remain_end)
shorten_name(name, max_len, start, end) ==
    IF Len(name) > max_len
    THEN StrHead(name, start) \o " ... " \o StrTail(name, end)
    ELSE name

\* QtWidgets.QAction()
NewAction == [text |-> "", statusTip |-> "", data |-> None,
              enabled |-> TRUE, visible |-> FALSE]

\* enable_action(action, filename)
enable_action(action, filename) ==
    [action EXCEPT
        !.text = shorten_name(filename, max_length, remain_start, remain_end),
        !.statusTip = "Open " \o filename,
        !.data = filename,
        !.enabled = TRUE,
        !.visible = TRUE]

\* set_no_recent_files_action: the placeholder when the first entry is
\* hidden; the clear entries are shown when it was not
set_no_recent_files_action(r) ==
    LET first_action_visible == r.actions[1].visible
    IN  [r EXCEPT
            !.actions[1] = IF first_action_visible THEN @
                           ELSE [@ EXCEPT !.text = "No recent files",
                                          !.enabled = FALSE,
                                          !.visible = TRUE],
            !.clear_visible = first_action_visible]

\* update_actions that does not hide the entries beyond the list
update_actionsKeep(r) ==
    LET shown == [i \in 1..max_no_files |->
                    IF i <= Len(r.filenames)
                    THEN enable_action(r.actions[i], r.filenames[i])
                    ELSE r.actions[i]]
        r1 == set_no_recent_files_action([r EXCEPT !.actions = shown])
    IN  [r1 EXCEPT !.filesChanged = r.filenames]

\* update_actions: an entry for every filename, the others hidden, then
\* the placeholder, then filesChanged(self.filenames)
update_actions(r) ==
    LET shown == [i \in 1..max_no_files |->
                    IF i <= Len(r.filenames)
                    THEN enable_action(r.actions[i], r.filenames[i])
                    ELSE [r.actions[i] EXCEPT !.visible = FALSE]]
        r1 == set_no_recent_files_action([r EXCEPT !.actions = shown])
    IN  [r1 EXCEPT !.filesChanged = r.filenames]

\* create_actions: max_no_files hidden entries, the clear entries, the
\* placeholder
create_actions(r) ==
    set_no_recent_files_action(
        [r EXCEPT !.actions = [i \in 1..max_no_files |-> NewAction],
                  !.clear_visible = TRUE])

\* load_files: file_list[:max_no_files]
load_files(r, file_list) ==
    update_actions([r EXCEPT !.filenames = Take(file_list, max_no_files)])

\* load_files_from_settings: settings.value('recent_files_list', [[]])[0]
load_files_from_settings(r) ==
    load_files(r, value(r.settings, << <<>> >>)[1])

\* clear_settings without settings.remove('recent_files_list')
clear_settingsKeep(r) == update_actions(load_files_from_settings(r))

\* clear_settings: settings.remove('recent_files_list') and reload
clear_settings(r) ==
    update_actions(load_files_from_settings([r EXCEPT !.settings = NoSettings]))

\* add_file without `del self.filenames[self.max_no_files:]`
add_fileNoLimit(r, filename) ==
    LET l3 == Dedup(<<filename>> \o r.filenames)
    IN  update_actions([r EXCEPT !.filenames = l3, !.settings = setValue(<<l3>>)])

\* add_file: insert at the front, cut to max_no_files, then drop duplicates,
\* store, update
add_file(r, filename) ==
    LET l1 == <<filename>> \o r.filenames
        l2 == Take(l1, max_no_files)
        l3 == Dedup(l2)
    IN  update_actions([r EXCEPT !.filenames = l3, !.settings = setValue(<<l3>>)])

\* list.remove(filename) raises ValueError when filename is not in the list
remove_fileRaises(r, filename) == filename \notin Range(r.filenames)

\* remove_file that drops the oldest entry instead of filename
remove_fileLast(r, filename) ==
    update_actions([r EXCEPT !.filenames = Take(r.filenames, Len(r.filenames) - 1)])

\* remove_file, when it does not raise: the list loses filename; the store
\* is not written
remove_file(r, filename) ==
    update_actions([r EXCEPT !.filenames = RemoveFirst(r.filenames, filename)])

\* RecentlyOpenedFiles.__init__ on a store
NewRegistry(s) ==
    load_files_from_settings(
        create_actions([filenames |-> <<>>, settings |-> s, filesChanged |-> <<>>,
                        actions |-> <<>>, clear_visible |-> FALSE]))

(* ------------------------ ClassicFileMainWindow ------------------------ *)
\* the window's document fields as a record: filename (_filename),
\* is_dirty, title (windowTitle), save_enabled (save_action is enabled)

\* f'{is_dirty_star}{self._filename} - {self.app_name}'
Title(dirty, name) == <<IF dirty THEN "*" ELSE "", name, " - ", app_name>>

\* set_window_title that leaves the title as it is
set_window_titleStale(w) == w

\* set_window_title: the star of a dirty document, the filename, the app
set_window_title(w) == [w EXCEPT !.title = Title(w.is_dirty, w.filename)]

set_filename(w, name) == set_window_title([w EXCEPT !.filename = name])

\* set_dirty that can set the flag but never clears it
set_dirtyOnly(w, flag) ==
    IF flag THEN set_window_title([w EXCEPT !.is_dirty = TRUE]) ELSE w

\* set_dirty(is_dirty): nothing when the flag is as asked; else the flag,
\* the title, and the Save entry unless the document is 'Untitled'
set_dirty(w, flag) ==
    IF w.is_dirty = flag THEN w
    ELSE LET w1 == set_window_title([w EXCEPT !.is_dirty = flag])
         IN  IF w1.filename # Untitled
             THEN [w1 EXCEPT !.save_enabled = flag]
             ELSE w1

\* the host's text widget reports a change of its text to set_dirty
\* (textChanged.connect(window.set_dirty)); notify says whether it does
content_changed(w, notify) == IF notify THEN set_dirty(w, TRUE) ELSE w

changed_events(notify) == IF notify THEN <<"textChanged">> ELSE <<>>

\* a gate that asks for a clean document too
gateAlways(dirty, reply) == [asked |-> TRUE, proceed |-> reply]

\* a gate that never asks
gateNever(dirty, reply) == [asked |-> FALSE, proceed |-> TRUE]

\* a gate that asks and goes on whatever the reply
gateIgnoreReply(dirty, reply) == [asked |-> dirty, proceed |-> TRUE]

\* `not self.is_dirty or request(self, message)`: request is called only for
\* a dirty document, and its reply decides
gate(dirty, reply) == [asked |-> dirty, proceed |-> (~dirty) \/ reply]

(* ------------------------------- request ------------------------------- *)
\* request(parent, core_message): one question box; the event it leaves
Request(core_message, reply) ==
    "request(" \o core_message \o ")" \o (IF reply THEN ":Ok" ELSE ":Cancel")

new_message == "start a new data file"
open_message(name) ==
    "open <b>" \o (IF name # None THEN basename(name) ELSE "another data file") \o "</b>"
exit_message == "exit " \o app_name

gate_events(g, core_message, reply) ==
    IF g.asked THEN <<Request(core_message, reply)>> ELSE <<>>

(* -------------------------------- state -------------------------------- *)
VARIABLES
    filename,       \* ClassicFileMainWindow._filename
    is_dirty,       \* ClassicFileMainWindow.is_dirty
    title,          \* the window title
    save_enabled,   \* save_action is enabled
    contents,       \* the text of the host's editor, behind the callbacks
    disk,           \* the file system: name -> NoFile or File(data)
    linesep,        \* os.linesep
    filenames,      \* RecentlyOpenedFiles.filenames
    settings,       \* RecentlyOpenedFiles.settings
    filesChanged,   \* the list last emitted with filesChanged
    actions,        \* RecentlyOpenedFiles.actions, the menu entries
    clear_visible,  \* RecentlyOpenedFiles.clear_actions are visible
    callbacks,      \* the names of ClassicFileMainWindow.callbacks set by the host
    open_dialog,    \* open_dialog is visible
    discard_ok,     \* open dialog up: the user agreed to discard the dirty document
    phase,          \* constructed, running, exited, crashed
    op,             \* the handler that ran last: its name and its path
    events,         \* what that handler did, in order
    ops,            \* SpecRegistry: calls counted against MaxOps
    fresh,          \* SpecRegistry: number of paths added so far
    script          \* SpecRegistry: progress along add(a), add(b), add(a), 11 new adds

vars == <<filename, is_dirty, title, save_enabled, contents, disk, linesep, callbacks,
          filenames, settings, filesChanged, actions, clear_visible, open_dialog,
          discard_ok, phase, op, events, ops, fresh, script>>

docVars == <<filename, is_dirty, title, save_enabled>>
regVars == <<filenames, settings, filesChanged, actions, clear_visible>>
monitorVars == <<ops, fresh, script>>

\* the names a file is written under: save_to_file gets the picked path or
\* the current filename
FileNames == {untitled} \cup DocPaths

W == [filename |-> filename, is_dirty |-> is_dirty, title |-> title,
      save_enabled |-> save_enabled]

R == [filenames |-> filenames, settings |-> settings, filesChanged |-> filesChanged,
      actions |-> actions, clear_visible |-> clear_visible]

SetW(w) ==
    /\ filename' = w.filename
    /\ is_dirty' = w.is_dirty
    /\ title' = w.title
    /\ save_enabled' = w.save_enabled

SetR(r) ==
    /\ filenames' = r.filenames
    /\ settings' = r.settings
    /\ filesChanged' = r.filesChanged
    /\ actions' = r.actions
    /\ clear_visible' = r.clear_visible

Raised(ev) ==
    \E i \in 1..Len(ev) :
        ev[i] \in {"raise:ValueError", "raise:OSError", "raise:CallbackException"}

\* the keys of ClassicFileMainWindow.callbacks
CallbackTypes == {"set_contents", "get_contents", "clear_contents"}

\* run_callback raises CallbackException when the callback is not set
run_callbackRaises(callback_type) == callback_type \notin callbacks

\* what open(filename, 'w') and file.write can do: nothing wrong, open
\* fails, write fails
SaveErrs == {None, "open", "write"}

\* the history kept in discard_ok while the open dialog is up: the document
\* is dirty and the user has agreed to a question of request() since it
\* became dirty. The dialog comes up over a dirty document only after such
\* an agreement, so nothing is lost by starting to record there.
Discard(accepted) ==
    discard_ok' = (/\ open_dialog'
                   /\ is_dirty'
                   /\ accepted \/ (is_dirty /\ discard_ok))

\* the replies that make a difference: request is not called for a clean document
Replies == IF is_dirty THEN BOOLEAN ELSE {TRUE}

\* open() can fail for other reasons only when the file is there
IoErrs(p) == IF Exists(disk, p) THEN BOOLEAN ELSE {FALSE}

(* --------------------------- file operations --------------------------- *)
\* load_file(filename). ioerr: open() fails with an OSError other than
\* FileNotFoundError; notify: the editor reports its new text to set_dirty.
\* file.read() is evaluated before run_callback('set_contents', ...) raises.
load_file(p, ioerr, notify) ==
    IF ~Exists(disk, p)
    THEN IF remove_fileRaises(R, p)
         THEN [w |-> W, r |-> R, contents |-> contents,
               events |-> <<"open:FileNotFoundError", "remove_file", "raise:ValueError">>]
         ELSE [w |-> W, r |-> remove_file(R, p), contents |-> contents,
               events |-> <<"open:FileNotFoundError", "remove_file", "filesChanged">>]
    ELSE IF ioerr
    THEN [w |-> W, r |-> R, contents |-> contents, events |-> <<"raise:OSError">>]
    ELSE IF run_callbackRaises("set_contents")
    THEN [w |-> W, r |-> R, contents |-> contents,
          events |-> <<"read", "raise:CallbackException">>]
    ELSE LET text == TextRead(disk[p][1])
             w1 == content_changed(W, notify)
             w2 == set_filename(w1, p)
             w3 == set_dirty(w2, FALSE)
         IN  [w |-> w3, r |-> add_file(R, p), contents |-> text,
              events |-> <<"read", "set_contents">> \o changed_events(notify)
                         \o <<"set_filename", "set_dirty", "add_file", "filesChanged">>]

\* save_to_file that names the document before it writes the file
save_to_fileEarly(p, ioerr) ==
    LET w1 == set_filename(W, p)
        w2 == set_dirty(w1, FALSE)
    IN  IF ioerr # None
        THEN [w |-> w1, r |-> R, disk |-> disk, events |-> <<"set_filename", "raise:OSError">>]
        ELSE [w |-> w2, r |-> add_file(R, p),
              disk |-> [disk EXCEPT ![p] = File(TextWrite(contents, linesep))],
              events |-> <<"set_filename", "get_contents", "write", "set_dirty",
                           "add_file", "filesChanged">>]

\* save_to_file(filename). ioerr: open(filename, 'w') fails, or file.write
\* or the closing flush fails. open(filename, 'w') empties the file before
\* run_callback('get_contents') is evaluated; a write that fails leaves
\* the file empty.
save_to_file(p, ioerr) ==
    IF ioerr = "open"
    THEN [w |-> W, r |-> R, disk |-> disk, events |-> <<"raise:OSError">>]
    ELSE IF run_callbackRaises("get_contents")
    THEN [w |-> W, r |-> R, disk |-> [disk EXCEPT ![p] = File(<<>>)],
          events |-> <<"truncate", "raise:CallbackException">>]
    ELSE IF ioerr = "write"
    THEN [w |-> W, r |-> R, disk |-> [disk EXCEPT ![p] = File(<<>>)],
          events |-> <<"truncate", "get_contents", "write", "raise:OSError">>]
    ELSE LET w1 == set_filename(W, p)
             w2 == set_dirty(w1, FALSE)
         IN  [w |-> w2, r |-> add_file(R, p),
              disk |-> [disk EXCEPT ![p] = File(TextWrite(contents, linesep))],
              events |-> <<"get_contents", "write", "set_filename", "set_dirty",
                           "add_file", "filesChanged">>]

(* ------------------------------- actions ------------------------------- *)
\* ClassicFileMainWindow.run(data_file): an exception of load_file ends the
\* program before the event loop starts
Run(data_file) ==
    /\ phase = "constructed"
    /\ op' = [name |-> "run", path |-> data_file]
    /\ IF data_file = None
       THEN /\ events' = <<>>
            /\ phase' = "running"
            /\ UNCHANGED <<docVars, regVars, contents>>
       ELSE \E ioerr \in IoErrs(data_file), notify \in BOOLEAN :
              LET res == load_file(data_file, ioerr, notify)
              IN  /\ SetW(res.w) /\ SetR(res.r)
                  /\ contents' = res.contents
                  /\ events' = res.events
                  /\ phase' = IF Raised(res.events) THEN "crashed" ELSE "running"
    /\ UNCHANGED <<disk, linesep, callbacks, open_dialog, monitorVars>>
    /\ Discard(FALSE)

\* set_dirty called by the presentation layer
SetDirty(flag) ==
    /\ phase = "running"
    /\ op' = [name |-> "set_dirty", path |-> None]
    /\ events' = <<>>
    /\ SetW(set_dirty(W, flag))
    /\ UNCHANGED <<regVars, contents, disk, linesep, callbacks, open_dialog, phase, monitorVars>>
    /\ Discard(FALSE)

\* the user edits the text in the host's editor, which reports the change
EditText(text) ==
    /\ phase = "running"
    /\ text # contents
    /\ op' = [name |-> "edit", path |-> None]
    /\ events' = <<>>
    /\ contents' = text
    /\ SetW(content_changed(W, TRUE))
    /\ UNCHANGED <<regVars, disk, linesep, callbacks, open_dialog, phase, monitorVars>>
    /\ Discard(FALSE)

show_new_dialog(reply, notify) ==
    LET g == gate(is_dirty, reply)
        ev == gate_events(g, new_message, reply)
    IN  /\ phase = "running"
        /\ op' = [name |-> "show_new_dialog", path |-> None]
        /\ IF g.proceed /\ run_callbackRaises("clear_contents")
           THEN /\ events' = ev \o <<"raise:CallbackException">>
                /\ UNCHANGED <<docVars, contents>>
           ELSE IF g.proceed
           THEN /\ contents' = <<>>
                /\ SetW(set_dirty(set_filename(content_changed(W, notify), untitled), FALSE))
                /\ events' = ev \o <<"clear_contents">> \o changed_events(notify)
                              \o <<"set_filename", "set_dirty">>
           ELSE /\ events' = ev
                /\ UNCHANGED <<docVars, contents>>
        /\ UNCHANGED <<regVars, disk, linesep, callbacks, open_dialog, phase, monitorVars>>
        /\ Discard(g.asked /\ reply)

\* show_open_dialog(filename): the Open... entry (no filename), or a
\* recent-file entry or another caller with a filename
show_open_dialog(p, reply, ioerr, notify) ==
    LET g == gate(is_dirty, reply)
        ev == gate_events(g, open_message(p), reply)
    IN  /\ phase = "running"
        /\ op' = [name |-> "show_open_dialog", path |-> p]
        /\ IF ~g.proceed
           THEN /\ events' = ev
                /\ UNCHANGED <<docVars, regVars, contents, open_dialog>>
           ELSE IF p = None
           THEN /\ events' = ev \o <<"show_dialog">>
                /\ open_dialog' = TRUE
                /\ UNCHANGED <<docVars, regVars, contents>>
           ELSE LET res == load_file(p, ioerr, notify)
                IN  /\ SetW(res.w) /\ SetR(res.r)
                    /\ contents' = res.contents
                    /\ events' = ev \o res.events
                    /\ UNCHANGED open_dialog
        /\ UNCHANGED <<disk, linesep, callbacks, phase, monitorVars>>
        /\ Discard(g.asked /\ reply)

\* open_dialog.fileSelected -> load_file; the dialog takes existing files only
OpenFileSelected(p, ioerr, notify) ==
    /\ phase = "running"
    /\ open_dialog
    /\ Exists(disk, p)
    /\ op' = [name |-> "open_dialog.fileSelected", path |-> p]
    /\ LET res == load_file(p, ioerr, notify)
       IN  /\ SetW(res.w) /\ SetR(res.r)
           /\ contents' = res.contents
           /\ events' = res.events
    /\ open_dialog' = FALSE
    /\ UNCHANGED <<disk, linesep, callbacks, phase, monitorVars>>
    /\ Discard(FALSE)

\* the open dialog is closed without a file
OpenDialogRejected ==
    /\ phase = "running"
    /\ open_dialog
    /\ op' = [name |-> "open_dialog.rejected", path |-> None]
    /\ events' = <<>>
    /\ open_dialog' = FALSE
    /\ UNCHANGED <<docVars, regVars, contents, disk, linesep, callbacks, phase, monitorVars>>
    /\ Discard(FALSE)

\* the Save entry, which the user can trigger only while it is enabled
save_file_request(ioerr) ==
    /\ phase = "running"
    /\ save_enabled
    /\ op' = [name |-> "save_file_request", path |-> filename]
    /\ LET res == save_to_file(filename, ioerr)
       IN  /\ SetW(res.w) /\ SetR(res.r)
           /\ disk' = res.disk
           /\ events' = res.events
    /\ UNCHANGED <<contents, linesep, callbacks, open_dialog, phase, monitorVars>>
    /\ Discard(FALSE)

\* show_save_as_dialog, and the file the user picks in it:
\* saveas_dialog.fileSelected -> save_to_file. Showing the dialog changes
\* nothing of the document, so both are one step, taken when the file is picked.
SaveAsFileSelected(p, ioerr) ==
    /\ phase = "running"
    /\ op' = [name |-> "saveas_dialog.fileSelected", path |-> p]
    /\ LET res == save_to_file(p, ioerr)
       IN  /\ SetW(res.w) /\ SetR(res.r)
           /\ disk' = res.disk
           /\ events' = res.events
    /\ UNCHANGED <<contents, linesep, callbacks, open_dialog, phase, monitorVars>>
    /\ Discard(FALSE)

\* ClassicFileMainWindow.request_exit, from the Exit entry (name) or from
\* closeEvent; ClassicMainWindow.request_exit ends the program
request_exit(name, reply) ==
    LET g == gate(is_dirty, reply)
        ev == gate_events(g, exit_message, reply)
    IN  /\ phase = "running"
        /\ op' = [name |-> name, path |-> None]
        /\ IF g.proceed
           THEN /\ events' = ev \o <<"exit">>
                /\ phase' = "exited"
           ELSE /\ events' = ev
                /\ UNCHANGED phase
        /\ UNCHANGED <<docVars, regVars, contents, disk, linesep, callbacks, open_dialog, monitorVars>>
        /\ Discard(g.asked /\ reply)

closeEvent(reply) == request_exit("closeEvent", reply)

(* ------------------- RecentlyOpenedFiles, on its own ------------------- *)
\* the next path the registry has never seen
FreshPath == PathName(fresh + 1)

\* a path that is never added
AbsentPath == PathName(NPaths + 1)

\* progress along: add(a), add(b), add(a), then adds of new paths
script_add(p) ==
    IF p = FreshPath
    THEN IF script \in {0, 1} \cup 3..(max_no_files + 3) THEN script + 1 ELSE -1
    ELSE IF script = 2 /\ p = filenames[2] THEN 3 ELSE -1

\* add_file(filename) with a new path or with one of the list
RegAddFile(p) ==
    /\ phase = "constructed"
    /\ \/ p = FreshPath /\ fresh < NPaths /\ fresh' = fresh + 1 /\ UNCHANGED ops
       \/ p \in Range(filenames) /\ ops < MaxOps /\ ops' = ops + 1 /\ UNCHANGED fresh
    /\ op' = [name |-> "add_file", path |-> p]
    /\ events' = <<"filesChanged">>
    /\ SetR(add_file(R, p))
    /\ script' = script_add(p)
    /\ UNCHANGED <<docVars, contents, disk, linesep, callbacks, open_dialog, discard_ok, phase>>

\* remove_file(filename) with a path of the list or with another one
RegRemoveFile(p) ==
    /\ phase = "constructed"
    /\ ops < MaxOps
    /\ ops' = ops + 1
    /\ op' = [name |-> "remove_file", path |-> p]
    /\ IF remove_fileRaises(R, p)
       THEN events' = <<"raise:ValueError">> /\ UNCHANGED regVars
       ELSE events' = <<"filesChanged">> /\ SetR(remove_file(R, p))
    /\ script' = -1
    /\ UNCHANGED <<docVars, contents, disk, linesep, callbacks, open_dialog, discard_ok, phase, fresh>>

\* clear_settings, the 'Clear recent files' entry
RegClearSettings ==
    /\ phase = "constructed"
    /\ ops < MaxOps
    /\ ops' = ops + 1
    /\ op' = [name |-> "clear_settings", path |-> None]
    /\ events' = <<"filesChanged">>
    /\ SetR(clear_settings(R))
    /\ script' = -1
    /\ UNCHANGED <<docVars, contents, disk, linesep, callbacks, open_dialog, discard_ok, phase, fresh>>

\* a new RecentlyOpenedFiles is constructed on the same store
RegNew ==
    /\ phase = "constructed"
    /\ ops < MaxOps
    /\ ops' = ops + 1
    /\ op' = [name |-> "__init__", path |-> None]
    /\ events' = <<"filesChanged">>
    /\ SetR(NewRegistry(settings))
    /\ script' = -1
    /\ UNCHANGED <<docVars, contents, disk, linesep, callbacks, open_dialog, discard_ok, phase, fresh>>

\* the menu entry that sent triggered, as an event
Sender(i) == "sender:" \o ToString(i)

\* file_triggered: the user picks entry i of the menu, which is visible and
\* enabled; fileTriggered is emitted with sender.data()
file_triggered(i) ==
    /\ phase = "constructed"
    /\ actions[i].visible
    /\ actions[i].enabled
    /\ op' = [name |-> "file_triggered", path |-> actions[i].data]
    /\ events' = <<Sender(i), "fileTriggered">>
    /\ UNCHANGED <<docVars, regVars, contents, disk, linesep, callbacks, open_dialog,
                   discard_ok, phase, monitorVars>>

(* ---------------------- long names in the registry -------------------- *)
\* a path of 50 characters
ExamplePath == "/home/user/projects/very/long/path/to/document.txt"

\* paths of 38 to 50 characters, cut from ExamplePath
Names ==
    {SubSeq(ExamplePath, a, b) :
        a \in 1..NameStarts,
        b \in (Len(ExamplePath) - MaxTrim)..Len(ExamplePath)}

\* add_file(filename) with one of the long names
RegAddName(p) ==
    /\ phase = "constructed"
    /\ fresh < MaxNames
    /\ fresh' = fresh + 1
    /\ op' = [name |-> "add_file", path |-> p]
    /\ events' = <<"filesChanged">>
    /\ SetR(add_file(R, p))
    /\ script' = -1
    /\ UNCHANGED <<docVars, contents, disk, linesep, callbacks, open_dialog, discard_ok, phase, ops>>

(* ---------------------------- specification ---------------------------- *)
\* what a former run and the host can have left behind: os.linesep, whether
\* the user's file is on disk, the stored list (none, or one add_file has
\* written), and the callbacks (all three set, or none)
InitConfigs ==
    {[linesep |-> sep, file |-> f, store |-> st, callbacks |-> cb] :
        sep \in LineSeps, f \in {NoFile, File(<<"LF">>)},
        st \in {NoSettings, setValue(<< <<"/old1", PathName(1)>> >>)},
        cb \in {CallbackTypes, {}}}

Configs ==
    {c \in InitConfigs :
        \/ c.callbacks = CallbackTypes
           /\ (c.linesep = <<"LF">> \/ (c.file # NoFile /\ c.store = NoSettings))
        \/ c.callbacks = {} /\ c.linesep = <<"LF">> /\ c.file # NoFile /\ c.store = NoSettings}

\* the window after ClassicFileMainWindow.__init__
Constructed ==
    /\ filename = Untitled
    /\ is_dirty = FALSE
    /\ title = Title(FALSE, Untitled)
    /\ save_enabled = FALSE
    /\ contents = <<>>
    /\ filenames = NewRegistry(settings).filenames
    /\ filesChanged = NewRegistry(settings).filesChanged
    /\ actions = NewRegistry(settings).actions
    /\ clear_visible = NewRegistry(settings).clear_visible
    /\ open_dialog = FALSE
    /\ discard_ok = FALSE
    /\ phase = "constructed"
    /\ op = [name |-> "__init__", path |-> None]
    /\ events = <<>>
    /\ ops = 0
    /\ fresh = 0
    /\ script = 0

Init ==
    /\ \E c \in Configs :
         /\ linesep = c.linesep
         /\ callbacks = c.callbacks
         /\ disk = [f \in FileNames |-> IF f \in DocPaths THEN c.file ELSE NoFile]
         /\ settings = c.store
    /\ Constructed

Next ==
    \/ \E data_file \in {None} \cup DocPaths : Run(data_file)
    \/ \E flag \in BOOLEAN : SetDirty(flag)
    \/ \E text \in Texts : EditText(text)
    \/ \E reply \in Replies, notify \in BOOLEAN : show_new_dialog(reply, notify)
    \/ \E p \in {None} \cup DocPaths \cup Range(filenames) :
         \E reply \in Replies, ioerr \in IoErrs(p), notify \in BOOLEAN :
            show_open_dialog(p, reply, ioerr, notify)
    \/ \E p \in DocPaths, ioerr, notify \in BOOLEAN : OpenFileSelected(p, ioerr, notify)
    \/ OpenDialogRejected
    \/ \E ioerr \in SaveErrs : save_file_request(ioerr)
    \/ \E p \in DocPaths, ioerr \in SaveErrs : SaveAsFileSelected(p, ioerr)
    \/ \E reply \in Replies : request_exit("request_exit", reply)
    \/ \E reply \in Replies : closeEvent(reply)

Spec == Init /\ [][Next]_vars

\* a registry on an empty store
InitRegistry ==
    /\ linesep = <<"LF">>
    /\ callbacks = CallbackTypes
    /\ disk = [f \in FileNames |-> NoFile]
    /\ settings = NoSettings
    /\ Constructed

NextRegistry ==
    \/ \E p \in {FreshPath} \cup Range(filenames) : RegAddFile(p)
    \/ \E p \in {AbsentPath} \cup Range(filenames) : RegRemoveFile(p)
    \/ RegClearSettings
    \/ RegNew
    \/ \E i \in 1..max_no_files : file_triggered(i)

SpecRegistry == InitRegistry /\ [][NextRegistry]_vars

\* a registry on an empty store, given long names
NextNames == \E p \in Names : RegAddName(p)

SpecNames == InitRegistry /\ [][NextNames]_vars

(* =============================== claims ================================ *)
AllPaths == DocPaths \cup OldPaths \cup {Untitled, untitled}

Messages == {new_message, exit_message} \cup {open_message(p) : p \in {None} \cup AllPaths}

RequestEvents == {Request(m, b) : m \in Messages, b \in BOOLEAN}

Declined == {Request(m, FALSE) : m \in Messages}

\* the number of question boxes a handler has shown
Requests(ev) == Cardinality({i \in 1..Len(ev) : ev[i] \in RequestEvents})

\* the handlers that discard the document
Gated == {"show_new_dialog", "show_open_dialog", "request_exit", "closeEvent"}

Accessors == {"set_contents", "get_contents", "clear_contents"}

\* C1: a gated handler (new, open with or without a path, exit, close) run
\* on a dirty document asks exactly once, and asks before it does anything
\* else; run on a clean document it does not ask and goes on.
C1_DirtyGating ==
    [][op'.name \in Gated =>
         IF is_dirty
         THEN /\ Requests(events') = 1
              /\ events'[1] \in RequestEvents
         ELSE /\ Requests(events') = 0
              /\ events' # <<>>
              /\ events'[1] \in {"clear_contents", "show_dialog", "read",
                                 "open:FileNotFoundError", "raise:OSError",
                                 "raise:CallbackException", "exit"}
      ]_vars

\* a dirty document was replaced by a file after the user agreed
C1_Witness ==
    /\ op.name = "show_open_dialog"
    /\ events[1] = Request(open_message(op.path), TRUE)
    /\ "set_contents" \in Range(events)

\* C2: when the document is dirty and the user declines, new, open and exit
\* change nothing: document, title, editor, recent files and store stay,
\* nothing is read or written, no accessor runs, the program goes on.
C2_DeclineChangesNothing ==
    [][(op'.name \in Gated /\ is_dirty /\ events' # <<>> /\ events'[1] \in Declined) =>
         /\ events' = <<events'[1]>>
         /\ UNCHANGED <<filename, is_dirty, title, save_enabled, contents, disk,
                        filenames, settings, filesChanged, open_dialog, phase>>
      ]_vars

\* the user declined to open a recent file over a dirty document
C2_Witness ==
    /\ op.name = "show_open_dialog"
    /\ op.path \in Range(filenames)
    /\ is_dirty
    /\ events = <<Request(open_message(op.path), FALSE)>>

\* C3: the list never holds a path twice, and add_file of a path of the
\* list moves it to the front and leaves the length as it was.
C3_Dedup ==
    [][op'.name = "add_file" =>
         /\ NoDup(filenames')
         /\ op'.path \in Range(filenames) =>
               /\ filenames'[1] = op'.path
               /\ Len(filenames') = Len(filenames)
      ]_vars

C5_Persisted ==
    (op.name \in {"add_file", "remove_file", "clear_settings"} /\ ~Raised(events))
        => NewRegistry(settings).filenames = filenames

\* C6: load_file of a path of the list whose file is gone takes the path
\* out of the list, keeps the other entries in order, emits filesChanged
\* with the new list, and leaves filename, is_dirty, title and the editor
\* alone; no accessor runs.
C6_NotFoundRecovery ==
    [][("open:FileNotFoundError" \in Range(events') /\ op'.path \in Range(filenames)) =>
         /\ op'.path \notin Range(filenames')
         /\ filenames' = Without(filenames, op'.path)
         /\ filesChanged' = filenames'
         /\ "filesChanged" \in Range(events')
         /\ Range(events') \cap Accessors = {}
         /\ ~Raised(events')
         /\ UNCHANGED <<filename, is_dirty, title, save_enabled, contents>>
      ]_vars

\* a stale entry between two others was triggered and is gone
C6_Witness ==
    /\ op.name = "show_open_dialog"
    /\ op.path = "/old1"
    /\ "open:FileNotFoundError" \in Range(events)
    /\ filenames = <<untitled, PathName(1)>>
    /\ filesChanged = filenames

\* C7: load_file of a file that is not there never raises, whether or not
\* the path is in the list; if it is not, the list stays as it is.
C7_NotFoundNeverRaises ==
    "open:FileNotFoundError" \in Range(events) =>
        /\ ~Raised(events)
        /\ phase # "crashed"

\* C8: save as p and then open p: the editor holds what it held, the
\* filename is p and the document is clean.
C8_RoundTrip ==
    [][(/\ op.name = "saveas_dialog.fileSelected"
        /\ "write" \in Range(events)
        /\ op'.name = "show_open_dialog"
        /\ op'.path = op.path
        /\ "read" \in Range(events')) =>
         /\ contents' = contents
         /\ filename' = op.path
         /\ ~is_dirty'
      ]_vars

\* the handler that ran last loaded or saved a file
Succeeded == "add_file" \in Range(events)

\* C9: after a load or a save that succeeded the filename is the path, the
\* document is clean and the path heads the list.
C9_AfterLoadOrSave ==
    Succeeded =>
        /\ filename = op.path
        /\ ~is_dirty
        /\ filenames # <<>>
        /\ filenames[1] = op.path

\* a file was loaded over a dirty document while the editor reported the
\* new text as a change
C9_Witness ==
    /\ Succeeded
    /\ events[1] \in RequestEvents
    /\ "textChanged" \in Range(events)
    /\ Len(filenames) > 1

\* C10: the program ends only through request_exit or closeEvent, and only
\* with a clean document or right after the user agreed to 'exit <app>'.
C10_ExitGuard ==
    phase = "exited" =>
        /\ op.name \in {"request_exit", "closeEvent"}
        /\ \/ ~is_dirty /\ events = <<"exit">>
           \/ events = <<Request(exit_message, TRUE), "exit">>

\* the window was closed with a dirty document after the user agreed
C10_Witness ==
    /\ phase = "exited"
    /\ op.name = "closeEvent"
    /\ is_dirty
    /\ events[1] = Request(exit_message, TRUE)

\* the names of a document without a file
Sentinels == {Untitled, untitled}

\* C11: when new goes on, the editor is cleared, the document is clean and
\* the filename is the value it has right after construction.
C11_NewResets ==
    (op.name = "show_new_dialog" /\ "clear_contents" \in Range(events)) =>
        /\ contents = <<>>
        /\ ~is_dirty
        /\ filename = Untitled

\* C12: the Save entry is enabled only for a document with a file, and for
\* a document with a file it is enabled exactly when the document is dirty.
C12_SaveEnabled ==
    /\ save_enabled => filename \notin Sentinels
    /\ filename \notin Sentinels => (save_enabled <=> is_dirty)

\* C13: save of a document without a file writes nothing and leaves the
\* filename, the dirty flag and the recent files as they are.
C13_SaveUntitled ==
    [][(op'.name = "save_file_request" /\ filename \in Sentinels) =>
         /\ "write" \notin Range(events')
         /\ UNCHANGED <<disk, filename, is_dirty, filenames, settings>>
      ]_vars

\* C14: a menu entry shows a name of at most max_length characters as it
\* is, and a longer one as its first 10 characters, " ... " and its last 25
\* characters, 40 characters in all; the list, the store and the data of
\* the entry hold the name as it was given.
C14_DisplayName ==
    /\ \A i \in 1..Len(filenames) :
         LET p == filenames[i]
             a == actions[i]
         IN  /\ a.visible
             /\ a.data = p
             /\ Len(p) <= 40 => a.text = p
             /\ Len(p) > 40 =>
                  /\ a.text = SubSeq(p, 1, 10) \o " ... " \o SubSeq(p, Len(p) - 24, Len(p))
                  /\ Len(a.text) = 40
    /\ op.name = "add_file" =>
         /\ filenames[1] = op.path
         /\ value(settings, << <<>> >>)[1] = filenames

\* a name of 50 characters above one of 40 characters
C14_Witness ==
    /\ Len(filenames) = 2
    /\ Len(filenames[1]) = 50
    /\ Len(filenames[2]) = 40
    /\ actions[1].text # filenames[1]
    /\ actions[2].text = filenames[2]

\* C15: the entry of "/home/user/projects/very/long/path/to/document.txt"
\* shows "/home/use ... h/to/document.txt".
C15_Example ==
    \A i \in 1..Len(filenames) :
        filenames[i] = ExamplePath => actions[i].text = "/home/use ... h/to/document.txt"

\* C15, amended: the entry of that path shows its first 10 characters,
\* " ... " and its last 25 characters:
\* "/home/user ... long/path/to/document.txt".
C15_ExampleAmended ==
    \A i \in 1..Len(filenames) :
        filenames[i] = ExamplePath =>
            actions[i].text = "/home/user ... long/path/to/document.txt"

\* the path of the example is in the menu
C15_Witness ==
    /\ filenames # <<>>
    /\ filenames[1] = ExamplePath
    /\ actions[1].visible
    /\ actions[1].data = ExamplePath

\* C16: after clear_settings the store has no entry for the list, the list
\* is empty, filesChanged was emitted with the empty list, and a registry
\* constructed on the store starts empty.
C16_Clear ==
    op.name = "clear_settings" =>
        /\ Key \notin DOMAIN settings
        /\ filenames = <<>>
        /\ "filesChanged" \in Range(events)
        /\ filesChanged = <<>>
        /\ NewRegistry(settings).filenames = <<>>
        /\ NewRegistry(settings).filesChanged = <<>>

\* a full list was cleared
C16_Witness ==
    /\ op.name = "clear_settings"
    /\ ops = 1
    /\ fresh = max_no_files
    /\ filenames = <<>>

\* C17: a file picked in the open dialog replaces the text of a dirty
\* document only if the user agreed to discard it, in that handler or
\* earlier and since the document became dirty.
C17_PickedFile ==
    [][(/\ op'.name = "open_dialog.fileSelected"
        /\ "set_contents" \in Range(events')
        /\ is_dirty) =>
         \/ discard_ok
         \/ \E i \in 1..Len(events') : events'[i] \in RequestEvents \ Declined
      ]_vars

\* C18: a handler that raises CallbackException (new, load, save as
\* without the callback they need) leaves the filename, the dirty flag,
\* the recent files, the store and every file on disk as they were.
C18_NoCallback ==
    [][Raised(events') /\ "raise:CallbackException" \in Range(events') =>
         UNCHANGED <<filename, is_dirty, filenames, settings, disk>>
      ]_vars

\* the handler that ran last ended with an OSError from open, read or write
IoFailed(ev) == ev # <<>> /\ ev[Len(ev)] = "raise:OSError"

\* C19: a load or a save that fails with an OSError (not file-not-found)
\* lets the error out as it is, tries the file once only, and leaves the
\* filename, the dirty flag, the title, the Save entry, the recent files
\* and the store as they were.
C19_IoFailure ==
    [][IoFailed(events') =>
         /\ UNCHANGED <<filename, is_dirty, title, save_enabled,
                        filenames, filesChanged, settings>>
         /\ Cardinality({i \in 1..Len(events') : events'[i] \in {"read", "write"}}) <= 1
         /\ Cardinality({i \in 1..Len(events') : events'[i] = "raise:OSError"}) = 1
         /\ Range(events') \cap {"set_filename", "set_dirty", "add_file", "filesChanged"} = {}
      ]_vars

\* a write to another file failed on a dirty document and emptied the file
C19_Witness ==
    /\ op.name = "saveas_dialog.fileSelected"
    /\ IoFailed(events)
    /\ "write" \in Range(events)
    /\ is_dirty
    /\ filename # op.path
    /\ disk[op.path] = File(<<>>)

\* C20: the title is the star of a dirty document, the filename, " - " and
\* the name of the application, for the filename and the dirty flag as they
\* are now.
C20_Title ==
    title = <<IF is_dirty THEN "*" ELSE "", filename, " - ", app_name>>

\* a dirty document with a file, after a handler that failed
C20_Witness ==
    /\ Raised(events)
    /\ is_dirty
    /\ filename \in DocPaths
    /\ title[1] = "*"
    /\ title[2] = PathName(1)

\* C21: the menu mirrors the list. With a list that is not empty, entry i
\* is visible exactly for i up to the length of the list, the visible
\* entries are enabled and carry the i-th path as data, and the clear
\* entries are visible; with an empty list the first entry alone is visible,
\* it is the disabled 'No recent files', and the clear entries are hidden.
\* An entry that is triggered emits the path of its position in the list.
C21_MenuMirrors ==
    /\ IF filenames # <<>>
       THEN /\ \A i \in 1..max_no_files :
                 /\ actions[i].visible <=> i <= Len(filenames)
                 /\ i <= Len(filenames) =>
                      /\ actions[i].enabled
                      /\ actions[i].data = filenames[i]
            /\ clear_visible
       ELSE /\ \A i \in 1..max_no_files : actions[i].visible <=> i = 1
            /\ ~actions[1].enabled
            /\ actions[1].text = "No recent files"
            /\ ~clear_visible
    /\ op.name = "file_triggered" =>
         /\ events[2] = "fileTriggered"
         /\ \A i \in 1..max_no_files :
              events[1] = Sender(i) => (i <= Len(filenames) /\ op.path = filenames[i])

\* the second of two entries was triggered after the list had been longer
C21_Witness ==
    /\ op.name = "file_triggered"
    /\ events[1] = Sender(2)
    /\ Len(filenames) = 2
    /\ op.path = filenames[2]
    /\ actions[3].data # None
    /\ ~actions[3].visible

====
